---- MODULE Spec2Model ----
(***************************************************************************)
(* Expression syntax tree of actionlint (expr_ast.go): the node variants,  *)
(* their Token() and Parent() methods, CompareOpNodeKind.IsEqualityOp,     *)
(* the depth-first walker VisitExprNode and the ancestor search FindParent.*)
(*                                                                         *)
(* A tree is a sequence of node records; a node is named by its index in   *)
(* that sequence and Nil is the nil pointer.  Nodes are numbered in        *)
(* preorder of the struct fields (Receiver; Operand, Index; Left, Right;   *)
(* Args[0], Args[1], ...), so the numbering is NOT the walker's order: an  *)
(* IndexAccess holds its Operand at the lower and its Index at the higher  *)
(* indices.  The data fields the modelled methods never read (Name, Value, *)
(* Property, Callee, CompareOpNode.Kind, LogicalOpNode.Kind) are left out. *)
(***************************************************************************)
EXTENDS Integers, Sequences, FiniteSets, TLC

VARIABLES
    tree,      \* the constructed syntax tree, shared by all readers
    op,        \* op[r]: the operation reader r was asked for, "none" before
    pc,        \* pc[r]: idle, running or done
    arg,       \* arg[r]: the node or kind the reader's call was given
    stack,     \* stack[r]: the call frames of visitExprNode, innermost last
    calls,     \* calls[r]: the callback invocations made so far, in order
    flag,      \* flag[r]: the callback's own state, an early-stop flag it may set
    cur,       \* cur[r]: FindParent's local `parent`; the receiver of Token()
    given,     \* given[r]: FindParent's local t, the payload predicate gave last
    applied,   \* applied[r]: the predicate applications made by FindParent
    hops,      \* hops[r]: delegations made by the running Token() call
    ret        \* ret[r]: the tuple of values the finished call returned

vars == <<tree, op, pc, arg, stack, calls, flag, cur, given, applied, hops, ret>>

Nil == 0

(***************************************************************************)
(* Bounds of the model.                                                    *)
(***************************************************************************)
MaxNodes == 3      \* every tree of at most MaxNodes nodes is explored
NumReaders == 2    \* concurrent readers of ConcSpec

(***************************************************************************)
(* Node variants.                                                          *)
(***************************************************************************)
LeafKinds == {"Variable", "Null", "Bool", "Int", "Float", "String"}

ReceiverKinds == {"ObjectDeref", "ArrayDeref"}

LeftRightKinds == {"CompareOp", "LogicalOp"}

Kinds ==
    LeafKinds \cup ReceiverKinds \cup LeftRightKinds
        \cup {"IndexAccess", "NotOp", "FuncCall"}

\* The variants whose struct has a tok field.
OwnTokenKinds == LeafKinds \cup {"NotOp", "FuncCall"}

\* The number of child fields a variant has; Args may hold any number.
Arities(kind) ==
    CASE kind \in LeafKinds -> {0}
      [] kind \in ReceiverKinds -> {1}
      [] kind = "NotOp" -> {1}
      [] kind = "IndexAccess" -> {2}
      [] kind \in LeftRightKinds -> {2}
      [] kind = "FuncCall" -> Nat

(***************************************************************************)
(* Construction.  The parser (not part of expr_ast.go) builds the tree     *)
(* bottom-up and sets every parent field; here a tree is described by its  *)
(* preorder word, the sequence of (kind, number of children) of its nodes, *)
(* and MakeTree fills the struct fields from the word.                     *)
(***************************************************************************)
NodeShapes(n) ==
    { s \in [kind : Kinds, arity : 0..(n - 1)] : s.arity \in Arities(s.kind) }

\* The preorder words of the forests of `open` trees with n nodes in all.
RECURSIVE PreorderWords(_, _)
PreorderWords(n, open) ==
    IF n = 0 /\ open = 0 THEN { <<>> }
    ELSE IF n = 0 \/ open = 0 \/ open > n THEN {}
    ELSE UNION { { <<s>> \o w : w \in PreorderWords(n - 1, open - 1 + s.arity) } :
                 s \in NodeShapes(n) }

\* The index after the k trees that start at index i of word w.
RECURSIVE SkipForest(_, _, _)
SkipForest(w, i, k) ==
    IF k = 0 THEN i ELSE SkipForest(w, i + 1, k - 1 + w[i].arity)

\* The j-th child (j = 1, 2, ...) of node i, in struct field order.
ChildAt(w, i, j) == SkipForest(w, i + 1, j - 1)

\* The node whose child field holds node c; Nil for the root.
ParentIn(w, c) ==
    IF \E i \in 1..Len(w) : \E j \in 1..w[i].arity : ChildAt(w, i, j) = c
    THEN CHOOSE i \in 1..Len(w) : \E j \in 1..w[i].arity : ChildAt(w, i, j) = c
    ELSE Nil

\* The token a node of an own-token variant stores: the lexer's token at
\* which the node starts.
TokenAt(i) == [offset |-> i]

VariableNode(kind, i, p) == [kind |-> kind, tok |-> TokenAt(i), parent |-> p]

ObjectDerefNode(kind, receiver, p) ==
    [kind |-> kind, Receiver |-> receiver, parent |-> p]

IndexAccessNode(operand, index, p) ==
    [kind |-> "IndexAccess", Operand |-> operand, Index |-> index, parent |-> p]

NotOpNode(operand, i, p) ==
    [kind |-> "NotOp", Operand |-> operand, tok |-> TokenAt(i), parent |-> p]

CompareOpNode(kind, left, right, p) ==
    [kind |-> kind, Left |-> left, Right |-> right, parent |-> p]

FuncCallNode(args, i, p) ==
    [kind |-> "FuncCall", Args |-> args, tok |-> TokenAt(i), parent |-> p]

MakeNode(w, i) ==
    LET k == w[i].kind
        p == ParentIn(w, i)
    IN  CASE k \in LeafKinds -> VariableNode(k, i, p)
          [] k \in ReceiverKinds -> ObjectDerefNode(k, ChildAt(w, i, 1), p)
          [] k = "IndexAccess" ->
                IndexAccessNode(ChildAt(w, i, 1), ChildAt(w, i, 2), p)
          [] k = "NotOp" -> NotOpNode(ChildAt(w, i, 1), i, p)
          [] k \in LeftRightKinds ->
                CompareOpNode(k, ChildAt(w, i, 1), ChildAt(w, i, 2), p)
          [] k = "FuncCall" ->
                FuncCallNode([j \in 1..w[i].arity |-> ChildAt(w, i, j)], i, p)

MakeTree(w) == [i \in 1..Len(w) |-> MakeNode(w, i)]

Shape(kind, arity) == [kind |-> kind, arity |-> arity]

\* foo.bar[baz.qux]
FooBarBazQux ==
    MakeTree(<< Shape("IndexAccess", 2),
                Shape("ObjectDeref", 1), Shape("Variable", 0),
                Shape("ObjectDeref", 1), Shape("Variable", 0) >>)

\* a == b && c != d
AEqBAndCNeD ==
    MakeTree(<< Shape("LogicalOp", 2),
                Shape("CompareOp", 2), Shape("Variable", 0), Shape("Variable", 0),
                Shape("CompareOp", 2), Shape("Variable", 0), Shape("Variable", 0) >>)

\* contains(github.event.*, 'x', !startsWith(a[0], null))
ContainsCall ==
    MakeTree(<< Shape("FuncCall", 3),
                Shape("ArrayDeref", 1), Shape("ObjectDeref", 1), Shape("Variable", 0),
                Shape("String", 0),
                Shape("NotOp", 1), Shape("FuncCall", 2),
                Shape("IndexAccess", 2), Shape("Variable", 0), Shape("Int", 0),
                Shape("Null", 0) >>)

ExampleTrees == { FooBarBazQux, AEqBAndCNeD, ContainsCall }

Trees ==
    { MakeTree(w) : w \in UNION { PreorderWords(n, 1) : n \in 1..MaxNodes } }
        \cup ExampleTrees

Nodes == DOMAIN tree

(***************************************************************************)
(* CompareOpNodeKind.                                                      *)
(***************************************************************************)
CompareOpNodeKindInvalid == 0
CompareOpNodeKindLess == 1
CompareOpNodeKindLessEq == 2
CompareOpNodeKindGreater == 3
CompareOpNodeKindGreaterEq == 4
CompareOpNodeKindEq == 5
CompareOpNodeKindNotEq == 6

CompareOpNodeKinds == CompareOpNodeKindInvalid..CompareOpNodeKindNotEq

\* kind.String()
CompareOpNodeKindString(kind) ==
    CASE kind = CompareOpNodeKindLess -> "<"
      [] kind = CompareOpNodeKindLessEq -> "<="
      [] kind = CompareOpNodeKindGreater -> ">"
      [] kind = CompareOpNodeKindGreaterEq -> ">="
      [] kind = CompareOpNodeKindEq -> "=="
      [] kind = CompareOpNodeKindNotEq -> "!="
      [] OTHER -> ""

\* Mutant: only == counts as an equality operator.
IsEqualityOpEqOnly(kind) == kind = CompareOpNodeKindEq

IsEqualityOp(kind) ==
    kind = CompareOpNodeKindEq \/ kind = CompareOpNodeKindNotEq

(***************************************************************************)
(* Token(): the own-token variants return n.tok, the others delegate to a  *)
(* child.                                                                  *)
(***************************************************************************)
\* Mutant: an IndexAccess delegates to its index.
TokenDelegateIndex(n) ==
    CASE n.kind \in ReceiverKinds -> n.Receiver
      [] n.kind = "IndexAccess" -> n.Index
      [] n.kind \in LeftRightKinds -> n.Left

\* The child whose Token() a delegating variant returns.
TokenDelegate(n) ==
    CASE n.kind \in ReceiverKinds -> n.Receiver
      [] n.kind = "IndexAccess" -> n.Operand
      [] n.kind \in LeftRightKinds -> n.Left

(***************************************************************************)
(* visitExprNode: the children the type switch descends into, in order.    *)
(***************************************************************************)
\* Mutant: the case for NotOp is missing from the type switch.
visitChildrenSkipNot(n) ==
    CASE n.kind \in ReceiverKinds -> << n.Receiver >>
      [] n.kind = "IndexAccess" -> << n.Index, n.Operand >>
      [] n.kind \in LeftRightKinds -> << n.Left, n.Right >>
      [] n.kind = "FuncCall" -> n.Args
      [] OTHER -> << >>

\* Mutant: an IndexAccess is visited in field order, operand first.
visitChildrenOperandFirst(n) ==
    CASE n.kind \in ReceiverKinds -> << n.Receiver >>
      [] n.kind = "IndexAccess" -> << n.Operand, n.Index >>
      [] n.kind = "NotOp" -> << n.Operand >>
      [] n.kind \in LeftRightKinds -> << n.Left, n.Right >>
      [] n.kind = "FuncCall" -> n.Args
      [] OTHER -> << >>

\* Mutant: the loop over Args runs from the last argument to the first.
visitChildrenArgsReversed(n) ==
    CASE n.kind \in ReceiverKinds -> << n.Receiver >>
      [] n.kind = "IndexAccess" -> << n.Index, n.Operand >>
      [] n.kind = "NotOp" -> << n.Operand >>
      [] n.kind \in LeftRightKinds -> << n.Left, n.Right >>
      [] n.kind = "FuncCall" ->
            [i \in 1..Len(n.Args) |-> n.Args[Len(n.Args) + 1 - i]]
      [] OTHER -> << >>

visitChildren(n) ==
    CASE n.kind \in ReceiverKinds -> << n.Receiver >>
      [] n.kind = "IndexAccess" -> << n.Index, n.Operand >>
      [] n.kind = "NotOp" -> << n.Operand >>
      [] n.kind \in LeftRightKinds -> << n.Left, n.Right >>
      [] n.kind = "FuncCall" -> n.Args
      [] OTHER -> << >>

\* Mutant: the entering flag is passed negated.
CallbackFlipped(n, p, entering) ==
    [node |-> n, parent |-> p, entering |-> ~entering]

Callback(n, p, entering) == [node |-> n, parent |-> p, entering |-> entering]

\* The call f(n, p, entering).  What f does is up to its author: it sees
\* the arguments and may change its own state in any way; it hands nothing
\* back to the walker.
Invoke(r, cb) ==
    /\ calls' = [calls EXCEPT ![r] = Append(@, cb)]
    /\ \E stop \in BOOLEAN : flag' = [flag EXCEPT ![r] = stop]

Frame(n, p) == [n |-> n, p |-> p, at |-> "enter", todo |-> << >>]

Top(r) == stack[r][Len(stack[r])]

SetTop(r, f) == [stack EXCEPT ![r][Len(stack[r])] = f]

Pop(r) == [stack EXCEPT ![r] = SubSeq(stack[r], 1, Len(stack[r]) - 1)]

(***************************************************************************)
(* Init: a constructed tree and idle readers.                              *)
(***************************************************************************)
InitReaders(readers) ==
    /\ op = [r \in readers |-> "none"]
    /\ pc = [r \in readers |-> "idle"]
    /\ arg = [r \in readers |-> Nil]
    /\ stack = [r \in readers |-> << >>]
    /\ calls = [r \in readers |-> << >>]
    /\ flag = [r \in readers |-> FALSE]
    /\ cur = [r \in readers |-> Nil]
    /\ given = [r \in readers |-> Nil]
    /\ applied = [r \in readers |-> << >>]
    /\ hops = [r \in readers |-> 0]
    /\ ret = [r \in readers |-> << >>]

Init ==
    /\ tree \in Trees
    /\ InitReaders({1})

Readers == DOMAIN pc

(***************************************************************************)
(* VisitExprNode(n, f).  The callback f returns nothing to the walker; its *)
(* invocation is recorded in calls.                                        *)
(***************************************************************************)
\* VisitExprNode(n, f): visitExprNode(n, nil, f)
VisitExprNode(r, n) ==
    /\ pc[r] = "idle"
    /\ op' = [op EXCEPT ![r] = "VisitExprNode"]
    /\ pc' = [pc EXCEPT ![r] = "running"]
    /\ arg' = [arg EXCEPT ![r] = n]
    /\ stack' = [stack EXCEPT ![r] = << Frame(n, Nil) >>]
    /\ UNCHANGED <<tree, calls, cur, applied, hops, ret, given, flag>>

\* f(n, p, true), then the type switch selects the children
visitEnter(r) ==
    /\ op[r] = "VisitExprNode" /\ pc[r] = "running"
    /\ Top(r).at = "enter"
    /\ Invoke(r, Callback(Top(r).n, Top(r).p, TRUE))
    /\ stack' = SetTop(r, [Top(r) EXCEPT !.at = "children",
                                         !.todo = visitChildren(tree[Top(r).n])])
    /\ UNCHANGED <<tree, op, pc, arg, cur, applied, hops, ret, given>>

\* Mutant: the recursive call passes its own parent p on, not n.
visitDescendPassesP(r) ==
    /\ op[r] = "VisitExprNode" /\ pc[r] = "running"
    /\ Top(r).at = "children"
    /\ Top(r).todo # << >>
    /\ stack' = [stack EXCEPT ![r] =
                    Append(SubSeq(@, 1, Len(@) - 1),
                           [Top(r) EXCEPT !.todo = Tail(Top(r).todo)])
                    \o << Frame(Head(Top(r).todo), Top(r).p) >>]
    /\ UNCHANGED <<tree, op, pc, arg, calls, cur, applied, hops, ret, given, flag>>

\* Mutant: the recursive call goes to n.Parent() where there is one.
visitDescendToParent(r) ==
    /\ op[r] = "VisitExprNode" /\ pc[r] = "running"
    /\ Top(r).at = "children"
    /\ Top(r).todo # << >>
    /\ stack' = [stack EXCEPT ![r] =
                    Append(SubSeq(@, 1, Len(@) - 1),
                           [Top(r) EXCEPT !.todo = Tail(Top(r).todo)])
                    \o << Frame(IF tree[Top(r).n].parent # Nil
                                THEN tree[Top(r).n].parent
                                ELSE Head(Top(r).todo), Top(r).n) >>]
    /\ UNCHANGED <<tree, op, pc, arg, calls, cur, applied, hops, ret, given, flag>>

\* the recursive call visitExprNode(child, n, f) for the next child
visitDescend(r) ==
    /\ op[r] = "VisitExprNode" /\ pc[r] = "running"
    /\ Top(r).at = "children"
    /\ Top(r).todo # << >>
    /\ stack' = [stack EXCEPT ![r] =
                    Append(SubSeq(@, 1, Len(@) - 1),
                           [Top(r) EXCEPT !.todo = Tail(Top(r).todo)])
                    \o << Frame(Head(Top(r).todo), Top(r).n) >>]
    /\ UNCHANGED <<tree, op, pc, arg, calls, cur, applied, hops, ret, given, flag>>

\* Mutant: the walkers record into one log shared by all of them.
visitLeaveShared(r) ==
    /\ op[r] = "VisitExprNode" /\ pc[r] = "running"
    /\ Top(r).at = "children"
    /\ Top(r).todo = << >>
    /\ Invoke(1, Callback(Top(r).n, Top(r).p, FALSE))
    /\ stack' = Pop(r)
    /\ pc' = [pc EXCEPT ![r] = IF Len(stack[r]) = 1 THEN "done" ELSE "running"]
    /\ UNCHANGED <<tree, op, arg, cur, applied, hops, ret, given>>

\* f(n, p, false), then return to the caller
visitLeave(r) ==
    /\ op[r] = "VisitExprNode" /\ pc[r] = "running"
    /\ Top(r).at = "children"
    /\ Top(r).todo = << >>
    /\ Invoke(r, Callback(Top(r).n, Top(r).p, FALSE))
    /\ stack' = Pop(r)
    /\ pc' = [pc EXCEPT ![r] = IF Len(stack[r]) = 1 THEN "done" ELSE "running"]
    /\ UNCHANGED <<tree, op, arg, cur, applied, hops, ret, given>>

(***************************************************************************)
(* FindParent(n, predicate).  The predicate is the caller's: each          *)
(* application may return any payload and any verdict.  An ancestor is     *)
(* asked at most once, so this covers every predicate that is a function   *)
(* of the node, and the stateful ones too.                                 *)
(***************************************************************************)
\* The payloads a predicate applied to ancestor n may hand back: the
\* ancestor narrowed to T, or nil.
Payloads(n) == { Nil, n }

\* Mutant: the search starts at n, not at its parent.
FindParentFromSelf(r, n) ==
    /\ pc[r] = "idle"
    /\ op' = [op EXCEPT ![r] = "FindParent"]
    /\ pc' = [pc EXCEPT ![r] = "running"]
    /\ arg' = [arg EXCEPT ![r] = n]
    /\ cur' = [cur EXCEPT ![r] = n]
    /\ UNCHANGED <<tree, stack, calls, applied, hops, ret, given, flag>>

\* parent := n.Parent()
FindParent(r, n) ==
    /\ pc[r] = "idle"
    /\ op' = [op EXCEPT ![r] = "FindParent"]
    /\ pc' = [pc EXCEPT ![r] = "running"]
    /\ arg' = [arg EXCEPT ![r] = n]
    /\ cur' = [cur EXCEPT ![r] = tree[n].parent]
    /\ UNCHANGED <<tree, stack, calls, applied, hops, ret, given, flag>>

\* one turn of the loop: t, ok := predicate(parent)
findParentLoop(r, t, ok) ==
    /\ op[r] = "FindParent" /\ pc[r] = "running"
    /\ cur[r] # Nil
    /\ given' = [given EXCEPT ![r] = t]
    /\ applied' = [applied EXCEPT ![r] = Append(@, [node |-> cur[r], ok |-> ok])]
    /\ IF ok
       THEN /\ ret' = [ret EXCEPT ![r] = << t, TRUE >>]
            /\ pc' = [pc EXCEPT ![r] = "done"]
            /\ UNCHANGED cur
       ELSE /\ cur' = [cur EXCEPT ![r] = tree[cur[r]].parent]
            /\ UNCHANGED <<ret, pc>>
    /\ UNCHANGED <<tree, op, arg, stack, calls, hops, flag>>

\* the loop ends at parent == nil: return zero, false
findParentNone(r) ==
    /\ op[r] = "FindParent" /\ pc[r] = "running"
    /\ cur[r] = Nil
    /\ ret' = [ret EXCEPT ![r] = << Nil, FALSE >>]
    /\ pc' = [pc EXCEPT ![r] = "done"]
    /\ UNCHANGED <<tree, op, arg, stack, calls, cur, applied, hops, given, flag>>

(***************************************************************************)
(* n.Token()                                                               *)
(***************************************************************************)
Token(r, n) ==
    /\ pc[r] = "idle"
    /\ op' = [op EXCEPT ![r] = "Token"]
    /\ pc' = [pc EXCEPT ![r] = "running"]
    /\ arg' = [arg EXCEPT ![r] = n]
    /\ cur' = [cur EXCEPT ![r] = n]
    /\ UNCHANGED <<tree, stack, calls, applied, hops, ret, given, flag>>

\* return n.Receiver.Token(), n.Operand.Token(), n.Left.Token()
tokenDelegate(r) ==
    /\ op[r] = "Token" /\ pc[r] = "running"
    /\ tree[cur[r]].kind \notin OwnTokenKinds
    /\ cur' = [cur EXCEPT ![r] = TokenDelegate(tree[cur[r]])]
    /\ hops' = [hops EXCEPT ![r] = @ + 1]
    /\ UNCHANGED <<tree, op, pc, arg, stack, calls, applied, ret, given, flag>>

\* return n.tok
tokenReturn(r) ==
    /\ op[r] = "Token" /\ pc[r] = "running"
    /\ tree[cur[r]].kind \in OwnTokenKinds
    /\ ret' = [ret EXCEPT ![r] = << tree[cur[r]].tok >>]
    /\ pc' = [pc EXCEPT ![r] = "done"]
    /\ UNCHANGED <<tree, op, arg, stack, calls, cur, applied, hops, given, flag>>

(***************************************************************************)
(* kind.IsEqualityOp()                                                     *)
(***************************************************************************)
IsEqualityOpCall(r, kind) ==
    /\ pc[r] = "idle"
    /\ op' = [op EXCEPT ![r] = "IsEqualityOp"]
    /\ pc' = [pc EXCEPT ![r] = "done"]
    /\ arg' = [arg EXCEPT ![r] = kind]
    /\ ret' = [ret EXCEPT ![r] = << IsEqualityOp(kind) >>]
    /\ UNCHANGED <<tree, stack, calls, cur, applied, hops, given, flag>>

(***************************************************************************)
(* Specifications.                                                         *)
(***************************************************************************)
\* A step of a call that reader r has begun.
Step(r) ==
    \/ visitEnter(r)
    \/ visitDescend(r)
    \/ visitLeave(r)
    \/ \E t \in Payloads(cur[r]), ok \in BOOLEAN : findParentLoop(r, t, ok)
    \/ findParentNone(r)
    \/ tokenDelegate(r)
    \/ tokenReturn(r)

Next ==
    \/ \E r \in Readers, n \in Nodes : VisitExprNode(r, n)
    \/ \E r \in Readers : visitEnter(r)
    \/ \E r \in Readers : visitDescend(r)
    \/ \E r \in Readers : visitLeave(r)
    \/ \E r \in Readers, n \in Nodes : FindParent(r, n)
    \/ \E r \in Readers : \E t \in Payloads(cur[r]), ok \in BOOLEAN :
          findParentLoop(r, t, ok)
    \/ \E r \in Readers : findParentNone(r)
    \/ \E r \in Readers, n \in Nodes : Token(r, n)
    \/ \E r \in Readers : tokenDelegate(r)
    \/ \E r \in Readers : tokenReturn(r)
    \/ \E r \in Readers, kind \in CompareOpNodeKinds : IsEqualityOpCall(r, kind)

Spec == Init /\ [][Next]_vars

\* A reader that has started runs to the end of its call: a goroutine that
\* is not blocked is scheduled, and the calls never block.
LiveSpec == Spec /\ \A r \in {1} : WF_vars(Step(r))

\* !a.b
NotADotB ==
    MakeTree(<< Shape("NotOp", 1), Shape("ObjectDeref", 1), Shape("Variable", 0) >>)

\* a[b]
AIndexB ==
    MakeTree(<< Shape("IndexAccess", 2), Shape("Variable", 0), Shape("Variable", 0) >>)

\* Several readers walk and search one constructed tree, their steps
\* interleaved in any order.
ConcInit ==
    /\ tree \in { NotADotB, AIndexB }
    /\ InitReaders(1..NumReaders)

ConcNext ==
    \/ \E r \in Readers, n \in Nodes : VisitExprNode(r, n)
    \/ \E r \in Readers : visitEnter(r)
    \/ \E r \in Readers : visitDescend(r)
    \/ \E r \in Readers : visitLeave(r)
    \/ \E r \in Readers, n \in Nodes : FindParent(r, n)
    \/ \E r \in Readers : \E t \in Payloads(cur[r]), ok \in BOOLEAN :
          findParentLoop(r, t, ok)
    \/ \E r \in Readers : findParentNone(r)

ConcSpec == ConcInit /\ [][ConcNext]_vars

(***************************************************************************)
(* The structure of the tree, read from the child fields alone.            *)
(***************************************************************************)
Range(f) == { f[i] : i \in DOMAIN f }

\* The nodes the child fields of node record n hold.
FieldChildren(n) ==
    CASE n.kind \in ReceiverKinds -> { n.Receiver }
      [] n.kind = "IndexAccess" -> { n.Operand, n.Index }
      [] n.kind = "NotOp" -> { n.Operand }
      [] n.kind \in LeftRightKinds -> { n.Left, n.Right }
      [] n.kind = "FuncCall" -> Range(n.Args)
      [] OTHER -> {}

\* Node x and every node reachable from it through child fields.
RECURSIVE Subtree(_)
Subtree(x) == {x} \cup UNION { Subtree(c) : c \in FieldChildren(tree[x]) }

Descendants(x) == Subtree(x) \ {x}

\* The node whose child field directly holds x; Nil for the root.
Holder(x) ==
    IF \E y \in Nodes : x \in FieldChildren(tree[y])
    THEN CHOOSE y \in Nodes : x \in FieldChildren(tree[y])
    ELSE Nil

\* The ancestors of x, nearest first.
RECURSIVE AncestorList(_)
AncestorList(x) ==
    IF Holder(x) = Nil THEN << >> ELSE << Holder(x) >> \o AncestorList(Holder(x))

Visitors == { r \in Readers : op[r] = "VisitExprNode" }

\* The positions in callback sequence c of the callbacks for node x.
At(c, x, entering) ==
    { i \in 1..Len(c) : c[i].node = x /\ c[i].entering = entering }

Of(c, S) == { i \in 1..Len(c) : c[i].node \in S }

\* All callbacks of the subtree of x have been made within positions lo..hi.
WholeSubtreeWithin(c, x, lo, hi) ==
    \A y \in Subtree(x) : \A e \in BOOLEAN :
        \E i \in At(c, y, e) : lo <= i /\ i <= hi

\* Every callback of subtree a lies before the entering callback of b.
SubtreeBefore(c, a, b) ==
    \A j \in At(c, b, TRUE) :
        /\ WholeSubtreeWithin(c, a, 1, j - 1)
        /\ \A i \in Of(c, Subtree(a)) : i < j

\* C1: a walk calls back only for the nodes reachable from its start node
\* through child fields, at most once entering and once leaving for each,
\* and when it has returned it has made exactly 2 * size calls: one
\* entering and one leaving for every such node.
C1_TwoCallbacksPerNode ==
    \A r \in Visitors :
        /\ \A i \in 1..Len(calls[r]) : calls[r][i].node \in Subtree(arg[r])
        /\ \A x \in Nodes : \A e \in BOOLEAN : Cardinality(At(calls[r], x, e)) <= 1
        /\ pc[r] = "done" =>
              /\ Len(calls[r]) = 2 * Cardinality(Subtree(arg[r]))
              /\ \A x \in Subtree(arg[r]) : \A e \in BOOLEAN :
                    Cardinality(At(calls[r], x, e)) = 1

\* A finished walk of a proper subtree of three or more nodes, whose
\* callback has set its early-stop flag.
C1_Witness ==
    \E r \in Visitors :
        /\ pc[r] = "done"
        /\ flag[r]
        /\ Cardinality(Subtree(arg[r])) >= 3
        /\ Nodes \ Subtree(arg[r]) # {}

EnteringOrder(c) ==
    LET e == SelectSeq(c, LAMBDA cb : cb.entering)
    IN  [i \in 1..Len(e) |-> e[i].node]

\* C2: for every IndexAccess node of the walked tree, every callback of the index subtree is
\* made before the entering callback of the operand; the walk of
\* foo.bar[baz.qux] enters IndexAccess, ObjectDeref(baz.qux), Variable(baz),
\* ObjectDeref(foo.bar), Variable(foo) in this order.
C2_IndexBeforeOperand ==
    \A r \in Visitors :
        /\ \A x \in Subtree(arg[r]) :
              tree[x].kind = "IndexAccess" =>
                  SubtreeBefore(calls[r], tree[x].Index, tree[x].Operand)
        /\ (tree = FooBarBazQux /\ arg[r] = 1 /\ pc[r] = "done") =>
              EnteringOrder(calls[r]) = << 1, 4, 5, 2, 3 >>

\* The finished walk of foo.bar[baz.qux] from its root.
C2_Witness ==
    \E r \in Visitors :
        /\ tree = FooBarBazQux /\ arg[r] = 1 /\ pc[r] = "done"
        /\ Descendants(tree[1].Index) # {}

\* C3: in the walked tree, the argument subtrees of a FuncCall are visited in index order, a
\* FuncCall without arguments gets its leaving callback right after its
\* entering one, and the left subtree of a CompareOp or LogicalOp is
\* visited before the entering callback of right.
C3_ArgsInOrderLeftBeforeRight ==
    \A r \in Visitors : \A x \in Subtree(arg[r]) :
        /\ tree[x].kind = "FuncCall" =>
              /\ \A i \in 1..(Len(tree[x].Args) - 1) :
                    SubtreeBefore(calls[r], tree[x].Args[i], tree[x].Args[i + 1])
              /\ tree[x].Args = << >> =>
                    \A j \in At(calls[r], x, TRUE) :
                        j < Len(calls[r]) => (j + 1) \in At(calls[r], x, FALSE)
        /\ tree[x].kind \in LeftRightKinds =>
              SubtreeBefore(calls[r], tree[x].Left, tree[x].Right)

\* A finished walk over a call of three arguments, the first with a subtree
\* of its own.
C3_Witness ==
    \E r \in Visitors :
        /\ pc[r] = "done"
        /\ tree[arg[r]].kind = "FuncCall"
        /\ Len(tree[arg[r]].Args) >= 3
        /\ Descendants(tree[arg[r]].Args[1]) # {}

\* C4: the first callback of a walk is the entering one of its start node;
\* after the entering callback of a node and until its leaving callback,
\* only callbacks of its descendants are made, and its leaving callback
\* comes after both callbacks of every descendant.
C4_Bracketed ==
    \A r \in Visitors :
        /\ calls[r] # << >> =>
              calls[r][1].node = arg[r] /\ calls[r][1].entering
        /\ \A x \in Nodes : \A i \in At(calls[r], x, TRUE) :
              /\ \A k \in (i + 1)..Len(calls[r]) :
                    (\A j \in At(calls[r], x, FALSE) : k < j) =>
                        calls[r][k].node \in Descendants(x)
              /\ \A j \in At(calls[r], x, FALSE) :
                    /\ i < j
                    /\ \A y \in Descendants(x) :
                          WholeSubtreeWithin(calls[r], y, i + 1, j - 1)
        /\ \A x \in Nodes : \A j \in At(calls[r], x, FALSE) :
              At(calls[r], x, TRUE) # {}
        /\ \A k \in 1..Len(calls[r]) : \A x \in Subtree(arg[r]) :
              calls[r][k].node \in Descendants(x) =>
                  \E i \in At(calls[r], x, TRUE) : i < k

\* The finished walk of a == b && c != d from its root.
C4_Witness ==
    \E r \in Visitors :
        /\ tree = AEqBAndCNeD /\ arg[r] = 1 /\ pc[r] = "done"

\* C7: every callback gets as parent argument nil for the node the walk was
\* started at, and for any other node the node whose child field holds it.
C7_ParentArgument ==
    \A r \in Visitors : \A i \in 1..Len(calls[r]) :
        calls[r][i].parent =
            IF calls[r][i].node = arg[r] THEN Nil ELSE Holder(calls[r][i].node)

\* A finished walk that was started below the root, over two levels or more.
C7_Witness ==
    \E r \in Visitors :
        /\ pc[r] = "done"
        /\ tree[arg[r]].parent # Nil
        /\ \E x \in Descendants(arg[r]) : Descendants(x) # {}

Finders == { r \in Readers : op[r] = "FindParent" }

Last(q) == q[Len(q)]

\* C5: FindParent applies the predicate to the ancestors of n, nearest
\* first and never to n itself, each after the ones before it reported no
\* match; it returns the payload of the first match with true, and nil with
\* false when every ancestor up to the root was asked without a match.
C5_NearestMatchingAncestor ==
    \A r \in Finders :
        LET anc == AncestorList(arg[r])
            app == applied[r]
        IN  /\ Len(app) <= Len(anc)
            /\ \A i \in 1..Len(app) : app[i].node = anc[i] /\ app[i].node # arg[r]
            /\ \A i \in 1..(Len(app) - 1) : ~app[i].ok
            /\ pc[r] = "done" =>
                  IF app # << >> /\ Last(app).ok
                  THEN ret[r] = << given[r], TRUE >>
                  ELSE Len(app) = Len(anc) /\ ret[r] = << Nil, FALSE >>

\* A search that stopped at the second of three or more ancestors.
C5_Witness ==
    \E r \in Finders :
        /\ pc[r] = "done"
        /\ Len(applied[r]) = 2
        /\ Len(AncestorList(arg[r])) >= 3
        /\ ret[r] = << applied[r][2].node, TRUE >>

TokenCallers == { r \in Readers : op[r] = "Token" }

\* The first node at or after x, in source order, of a variant that stores
\* its own token.
FirstOwnToken(x) ==
    CHOOSE j \in Nodes :
        /\ j >= x
        /\ tree[j].kind \in OwnTokenKinds
        /\ \A k \in x..(j - 1) : tree[k].kind \notin OwnTokenKinds

\* A Token() call stays within the subtree of n, has passed no own-token
\* node, and returns the token of the first own-token node at or after n.
TokenOfFirstOwnTokenNode ==
    \A r \in TokenCallers :
        /\ cur[r] \in Subtree(arg[r])
        /\ hops[r] < Cardinality(Subtree(arg[r]))
        /\ hops[r] = cur[r] - arg[r]
        /\ \A k \in arg[r]..(cur[r] - 1) : tree[k].kind \notin OwnTokenKinds
        /\ pc[r] = "done" =>
              /\ cur[r] = FirstOwnToken(arg[r])
              /\ ret[r] = << tree[FirstOwnToken(arg[r])].tok >>
              /\ ret[r] = << TokenAt(cur[r]) >>

\* C6: n.Token() returns; it follows receiver, operand or left from node to
\* node within the subtree of n, in fewer hops than the subtree has nodes,
\* and returns the own token of the first own-token node it reaches that
\* way, which is the first own-token node at or after n in source order.
C6_TokenTerminatesAtFirstOwnToken ==
    /\ []TokenOfFirstOwnTokenNode
    /\ \A r \in {1} : (op[r] = "Token") ~> (pc[r] = "done")

\* Token() of an IndexAccess that returned after two hops or more.
C6_Witness ==
    \E r \in TokenCallers :
        /\ pc[r] = "done"
        /\ tree[arg[r]].kind = "IndexAccess"
        /\ hops[r] >= 2

\* C8: IsEqualityOp() is true exactly for the kinds of == and !=, and false
\* for <, <=, >, >= and the invalid zero value.
C8_IsEqualityOp ==
    \A r \in Readers :
        (op[r] = "IsEqualityOp" /\ pc[r] = "done") =>
            /\ ret[r] = << CompareOpNodeKindString(arg[r]) \in { "==", "!=" } >>
            /\ arg[r] \in { CompareOpNodeKindInvalid, CompareOpNodeKindLess,
                            CompareOpNodeKindLessEq, CompareOpNodeKindGreater,
                            CompareOpNodeKindGreaterEq } => ret[r] = << FALSE >>

\* IsEqualityOp() has returned true for the kind of !=.
C8_Witness ==
    \E r \in Readers :
        /\ op[r] = "IsEqualityOp" /\ pc[r] = "done"
        /\ arg[r] = CompareOpNodeKindNotEq
        /\ ret[r] = << TRUE >>

\* The callback sequence of a walk of the subtree of x that runs alone.
RECURSIVE VisitAlone(_, _)
VisitAlone(x, p) ==
    LET kids == visitChildren(tree[x])
        Sub[i \in 0..Len(kids)] ==
            IF i = 0 THEN << >> ELSE Sub[i - 1] \o VisitAlone(kids[i], x)
    IN  << Callback(x, p, TRUE) >> \o Sub[Len(kids)] \o << Callback(x, p, FALSE) >>

IsPrefix(a, b) == Len(a) <= Len(b) /\ a = SubSeq(b, 1, Len(a))

ReaderState(r) ==
    << op[r], pc[r], arg[r], stack[r], calls[r], flag[r], cur[r], given[r], applied[r],
       hops[r], ret[r] >>

\* What each reader has observed is what it observes when it runs alone.
ObservesAsAlone ==
    /\ \A r \in Visitors :
          /\ IsPrefix(calls[r], VisitAlone(arg[r], Nil))
          /\ pc[r] = "done" => calls[r] = VisitAlone(arg[r], Nil)
    /\ C5_NearestMatchingAncestor

\* C9: under every interleaving of the readers' steps the tree is left
\* unchanged, a step of one reader changes nothing of another reader, and
\* every reader observes the callback sequence or search result of a run
\* alone.
C9_ConcurrentReaders ==
    /\ []ObservesAsAlone
    /\ [][ /\ tree' = tree
           /\ \E r \in Readers :
                 \A q \in Readers \ {r} : ReaderState(q)' = ReaderState(q) ]_vars

\* One reader is in the middle of a walk while another is in the middle of
\* a search.
C9_Witness ==
    \E r, q \in Readers :
        /\ r # q
        /\ op[r] = "VisitExprNode" /\ pc[r] = "running" /\ Len(calls[r]) >= 2
        /\ op[q] = "FindParent" /\ pc[q] = "running" /\ Len(applied[q]) >= 1

\* C10: a walk that has started returns, its last callback is the leaving
\* callback of the node it was started at, and every recursive call goes
\* to a node held by a child field of the node being visited, never to its
\* Parent().
C10_WalkTerminates ==
    /\ \A r \in {1} :
          (op[r] = "VisitExprNode") ~>
              (/\ pc[r] = "done"
               /\ stack[r] = << >>
               /\ calls[r] # << >>
               /\ Last(calls[r]) = Callback(arg[r], Nil, FALSE))
    /\ [][ \A r \in Readers :
              (op'[r] = "VisitExprNode" /\ Len(stack'[r]) > Len(stack[r])) =>
                  /\ Len(stack[r]) > 0 =>
                        /\ Last(stack'[r]).n \in FieldChildren(tree[Top(r).n])
                        /\ Last(stack'[r]).n # tree[Top(r).n].parent
                  /\ Len(stack'[r]) = Len(stack[r]) + 1 ]_vars

\* A finished walk that was started at a node whose Parent() is not nil.
C10_Witness ==
    \E r \in Visitors :
        /\ pc[r] = "done"
        /\ tree[arg[r]].parent # Nil
        /\ Holder(arg[r]) \notin Range(EnteringOrder(calls[r]))
        /\ Len(calls[r]) >= 4

====
